---- MODULE Spec2Model ----
(***************************************************************************)
(* A model of little_bird/little_bird.py: the LittleBird client, its five  *)
(* operations, the shared response parser and the scoped OAuth1 session.   *)
(*                                                                         *)
(* Python strings that the code inspects or rewrites (tweet text, tweet    *)
(* ids) are sequences of one-character strings; strings the code only      *)
(* passes along (tokens, user ids, credentials) are TLA+ strings. JSON     *)
(* payloads the code returns untouched (`data`, `errors`) are sequences of *)
(* atoms. An HTTP response is whatever the server sends: a status and a    *)
(* body that is garbage, a JSON array, or a JSON object with any subset    *)
(* of the keys the code looks at.                                          *)
(***************************************************************************)
EXTENDS Integers, Sequences, FiniteSets, TLC

VARIABLES client, nsessions, open, call, gen, last, deleted

vars == <<client, nsessions, open, call, gen, last, deleted>>

(***************************************************************************)
(* Bounds of the model: the length of the short tweet texts, the number of *)
(* ids in a list, the number of sessions opened in a run, and the number   *)
(* of pages the server chains.                                             *)
(***************************************************************************)
MaxTextLen == 2
MaxIds == 2
MaxSessions == 2
MaxPages == 3

(***************************************************************************)
(* Program constants.                                                      *)
(***************************************************************************)
TWEET_MAX_LEN == 280
max_results_per_page == 50
OK == 200
CREATED == 201
FORBIDDEN == 403

(***************************************************************************)
(* Strings.                                                                *)
(***************************************************************************)
\* the whitespace str.strip() removes (the ASCII part that occurs here)
Whitespace == {" ", "\t", "\n", "\r"}

RECURSIVE lstrip(_)
lstrip(s) ==
    IF s = <<>> \/ Head(s) \notin Whitespace THEN s ELSE lstrip(Tail(s))

RECURSIVE rstrip(_)
rstrip(s) ==
    IF s = <<>> \/ s[Len(s)] \notin Whitespace THEN s
    ELSE rstrip(SubSeq(s, 1, Len(s) - 1))

\* str.strip()
strip(s) == rstrip(lstrip(s))

\* sep.join(items)
RECURSIVE join(_, _)
join(sep, items) ==
    IF items = <<>> THEN <<>>
    ELSE IF Len(items) = 1 THEN items[1]
    ELSE items[1] \o sep \o join(sep, Tail(items))

\* s.endswith(suffix)
endswith(s, suffix) ==
    /\ Len(s) >= Len(suffix)
    /\ SubSeq(s, Len(s) - Len(suffix) + 1, Len(s)) = suffix

(***************************************************************************)
(* Exceptions. TwitterError derives from BaseException, not Exception.     *)
(***************************************************************************)
ExcBase ==
    [ BaseException |-> "BaseException",
      Exception |-> "BaseException",
      TwitterError |-> "BaseException",
      DuplicateTweetError |-> "TwitterError",
      ValueError |-> "Exception",
      TypeError |-> "Exception",
      OverflowError |-> "Exception",
      KeyError |-> "Exception",
      AssertionError |-> "Exception",
      GeneratorExit |-> "BaseException" ]

RECURSIVE issubclass(_, _)
issubclass(e, cls) ==
    IF e = cls THEN TRUE
    ELSE IF e = "BaseException" THEN FALSE
    ELSE issubclass(ExcBase[e], cls)

\* A response body: `kind` says whether it deserializes to a dict ("object"),
\* to something else ("array") or not at all ("garbage"); `keys` are the keys
\* of the dict among those the code reads, `meta` the keys of its `meta`.
NoBody == [kind |-> "none", keys |-> {}, errors |-> <<>>, data |-> <<>>,
           meta |-> {}, next_token |-> "", detail |-> <<>>]

\* What a call ends with: a returned value or a raised exception. `value` is
\* the returned data or the `errors` value an exception carries, `content`
\* the parsed body an exception carries, `status` the status in its message.
Return(v) ==
    [kind |-> "return", exc |-> "", value |-> v, content |-> NoBody, status |-> 0]

Raise(e) ==
    [kind |-> "raise", exc |-> e, value |-> <<>>, content |-> NoBody, status |-> 0]

RaiseErrors(errs) ==
    [kind |-> "raise", exc |-> "TwitterError", value |-> errs,
     content |-> NoBody, status |-> 0]

RaiseContent(e, content) ==
    [kind |-> "raise", exc |-> e, value |-> <<>>, content |-> content, status |-> 0]

RaiseStatus(status) ==
    [kind |-> "raise", exc |-> "Exception", value |-> <<>>,
     content |-> NoBody, status |-> status]

\* parse without the look at `errors`
parse_mut(response) ==
    IF response.body.kind # "object"
    THEN [ok |-> FALSE, outcome |-> RaiseStatus(response.status)]
    ELSE [ok |-> TRUE, outcome |-> Return(<<>>)]

(***************************************************************************)
(* parse(response): the body must deserialize to a dict, else Exception;   *)
(* a dict with an `errors` key raises TwitterError carrying that value.    *)
(***************************************************************************)
parse(response) ==
    IF response.body.kind # "object"
    THEN [ok |-> FALSE, outcome |-> RaiseStatus(response.status)]
    ELSE IF "errors" \in response.body.keys
    THEN [ok |-> FALSE, outcome |-> RaiseErrors(response.body.errors)]
    ELSE [ok |-> TRUE, outcome |-> Return(<<>>)]

\* content['data']: KeyError when the key is absent
GetData(content) ==
    IF "data" \in content.keys THEN Return(content.data) ELSE Raise("KeyError")

(***************************************************************************)
(* LittleBird.__init__. A dict is a sequence of <<key, value>> pairs with  *)
(* distinct keys, in insertion order.                                      *)
(***************************************************************************)
rename ==
    [ consumer_key |-> "client_key",
      consumer_secret |-> "client_secret",
      access_token |-> "resource_owner_key",
      access_token_secret |-> "resource_owner_secret" ]

\* the iteration order of `rename`
rename_keys ==
    <<"consumer_key", "consumer_secret", "access_token", "access_token_secret">>

\* the parameter names of OAuth1Session.__init__
allowed_keys ==
    {"client_key", "client_secret", "resource_owner_key", "resource_owner_secret",
     "callback_uri", "signature_method", "signature_type", "rsa_key", "verifier",
     "client_class", "force_include_body"}

HasKey(d, k) == \E i \in 1..Len(d) : d[i][1] = k

GetItem(d, k) == d[CHOOSE i \in 1..Len(d) : d[i][1] = k][2]

\* the credential check reading auth_params.get(k): an absent key counts as
\* an empty one
RECURSIVE check_credentials_mut(_, _)
check_credentials_mut(auth_params, ks) ==
    IF ks = <<>> THEN ""
    ELSE IF ~HasKey(auth_params, Head(ks)) THEN "ValueError"
    ELSE IF GetItem(auth_params, Head(ks)) = "" THEN "ValueError"
    ELSE check_credentials_mut(auth_params, Tail(ks))

\* for k in rename: if not auth_params[k]: raise ValueError
RECURSIVE check_credentials(_, _)
check_credentials(auth_params, ks) ==
    IF ks = <<>> THEN ""
    ELSE IF ~HasKey(auth_params, Head(ks)) THEN "KeyError"
    ELSE IF GetItem(auth_params, Head(ks)) = "" THEN "ValueError"
    ELSE check_credentials(auth_params, Tail(ks))

EmptyDict == [k \in {} |-> ""]

\* {rename.get(k, k): v for (k, v) in auth_params.items()}: a later item
\* overwrites an earlier one stored under the same key
RECURSIVE rename_items(_)
rename_items(items) ==
    IF items = <<>> THEN EmptyDict
    ELSE LET n == Len(items)
             rest == rename_items(SubSeq(items, 1, n - 1))
             k == IF items[n][1] \in DOMAIN rename THEN rename[items[n][1]]
                  ELSE items[n][1]
         IN  [x \in DOMAIN rest \cup {k} |-> IF x = k THEN items[n][2] ELSE rest[x]]

NoClient == [status |-> "none", exc |-> "", oauth_params |-> EmptyDict]

LittleBird_init(auth_params) ==
    LET bad == check_credentials(auth_params, rename_keys)
        oauth_params == rename_items(auth_params)
    IN  IF bad # ""
        THEN [status |-> "failed", exc |-> bad, oauth_params |-> EmptyDict]
        ELSE IF ~(DOMAIN oauth_params \subseteq allowed_keys)
        THEN [status |-> "failed", exc |-> "AssertionError",
              oauth_params |-> EmptyDict]
        ELSE [status |-> "ready", exc |-> "", oauth_params |-> oauth_params]

(***************************************************************************)
(* strftime(timestamp): the UTC date and time of a Unix timestamp, written *)
(* as YYYY-MM-DDTHH:MM:SSZ.                                                *)
(***************************************************************************)
Digit(n) ==
    CASE n = 0 -> "0" [] n = 1 -> "1" [] n = 2 -> "2" [] n = 3 -> "3"
      [] n = 4 -> "4" [] n = 5 -> "5" [] n = 6 -> "6" [] n = 7 -> "7"
      [] n = 8 -> "8" [] n = 9 -> "9"

RECURSIVE Pow10(_)
Pow10(w) == IF w = 0 THEN 1 ELSE 10 * Pow10(w - 1)

\* n written with w digits, zero-padded
ZeroPad(n, w) == [i \in 1..w |-> Digit((n \div Pow10(w - i)) % 10)]

\* the civil date of a day number counted from 1970-01-01
CivilFromDays(days) ==
    LET z == days + 719468
        era == z \div 146097
        doe == z - era * 146097
        yoe == (doe - doe \div 1460 + doe \div 36524 - doe \div 146096) \div 365
        doy == doe - (365 * yoe + yoe \div 4 - yoe \div 100)
        mp == (5 * doy + 2) \div 153
        d == doy - (153 * mp + 2) \div 5 + 1
        m == IF mp < 10 THEN mp + 3 ELSE mp - 9
        y == yoe + era * 400 + (IF m <= 2 THEN 1 ELSE 0)
    IN  [year |-> y, month |-> m, day |-> d]

strftime(timestamp) ==
    LET date == CivilFromDays(timestamp \div 86400)
        secs == timestamp % 86400
    IN  ZeroPad(date.year, 4) \o <<"-">> \o ZeroPad(date.month, 2) \o <<"-">>
          \o ZeroPad(date.day, 2) \o <<"T">> \o ZeroPad(secs \div 3600, 2)
          \o <<":">> \o ZeroPad((secs % 3600) \div 60, 2) \o <<":">>
          \o ZeroPad(secs % 60, 2) \o <<"Z">>

(***************************************************************************)
(* The signed session. oauth() opens a fresh OAuth1Session when the `with` *)
(* block is entered and closes it when the block is left, however it is    *)
(* left. `open` holds the sessions not yet closed.                         *)
(***************************************************************************)
oauth_enter == open \cup {nsessions + 1}

\* a session that is never closed
oauth_exit_mut(session) == open

oauth_exit(session) == open \ {session}

(***************************************************************************)
(* Argument validation and request building of the four one-request        *)
(* operations. A Python argument carries its type.                         *)
(***************************************************************************)
Str(s) == [type |-> "str", s |-> s]

List(items) == [type |-> "list", items |-> items]

NoRequest == [method |-> "none", url |-> <<>>]

NoResponse == [status |-> 0, body |-> NoBody]

\* the check of ids without `not all(ids)`
get_tweets_by_id_malformed_mut(ids) ==
    \/ ids.type = "NoneType" \/ ids.items = <<>>
    \/ ids.type # "list"

\* (not ids) or (not isinstance(ids, list)) or (not all(ids))
get_tweets_by_id_malformed(ids) ==
    \/ ids.type = "NoneType" \/ ids.items = <<>>
    \/ ids.type # "list"
    \/ \E i \in 1..Len(ids.items) : ids.items[i] = <<>>

get_tweets_by_id_request(ids) ==
    [method |-> "GET", url |-> <<"2", "tweets">>,
     params |-> [ids |-> join(<<",">>, ids.items)]]

\* the checks of tweet() with the length taken before stripping
tweet_validate_mut(text) ==
    IF text.type # "str" THEN [exc |-> "TypeError", text |-> <<>>]
    ELSE LET stripped == strip(text.s)
         IN  IF stripped = <<>> THEN [exc |-> "ValueError", text |-> <<>>]
             ELSE IF Len(text.s) > TWEET_MAX_LEN
             THEN [exc |-> "OverflowError", text |-> <<>>]
             ELSE [exc |-> "", text |-> stripped]

\* the checks of tweet() before the session is opened; `text` is the
\* stripped text when they pass
tweet_validate(text) ==
    IF text.type # "str" THEN [exc |-> "TypeError", text |-> <<>>]
    ELSE LET stripped == strip(text.s)
         IN  IF stripped = <<>> THEN [exc |-> "ValueError", text |-> <<>>]
             ELSE IF Len(stripped) > TWEET_MAX_LEN
             THEN [exc |-> "OverflowError", text |-> <<>>]
             ELSE [exc |-> "", text |-> stripped]

tweet_request(text) ==
    [method |-> "POST", url |-> <<"2", "tweets">>, json |-> [text |-> text]]

untweet_request(id) ==
    [method |-> "DELETE", url |-> <<"2", "tweets", id>>]

users_by_username_request(usernames) ==
    [method |-> "GET", url |-> <<"2", "users", "by">>,
     params |-> [usernames |-> usernames]]

(***************************************************************************)
(* What each one-request operation makes of the response.                  *)
(***************************************************************************)
\* get_tweets_by_id accepting status 200 only
get_tweets_by_id_result_mut(response) ==
    LET parsed == parse(response)
    IN  IF ~parsed.ok THEN parsed.outcome
        ELSE IF response.status \notin {200}
        THEN RaiseStatus(response.status)
        ELSE GetData(response.body)

get_tweets_by_id_result(response) ==
    LET parsed == parse(response)
    IN  IF ~parsed.ok THEN parsed.outcome
        ELSE IF response.status \notin {200, 400}
        THEN RaiseStatus(response.status)
        ELSE GetData(response.body)

duplicate_content ==
    <<"d", "u", "p", "l", "i", "c", "a", "t", "e", " ",
      "c", "o", "n", "t", "e", "n", "t", ".">>

\* content.get('detail', "")
GetDetail(content) ==
    IF "detail" \in content.keys THEN content.detail ELSE <<>>

\* tweet taking every 403 for a duplicate
tweet_result_mut(response) ==
    LET parsed == parse(response)
    IN  IF ~parsed.ok THEN parsed.outcome
        ELSE IF response.status = CREATED THEN GetData(response.body)
        ELSE IF response.status = FORBIDDEN
        THEN RaiseContent("DuplicateTweetError", response.body)
        ELSE RaiseStatus(response.status)

tweet_result(response) ==
    LET parsed == parse(response)
    IN  IF ~parsed.ok THEN parsed.outcome
        ELSE IF response.status = CREATED THEN GetData(response.body)
        ELSE IF response.status = FORBIDDEN
        THEN IF endswith(GetDetail(response.body), duplicate_content)
             THEN RaiseContent("DuplicateTweetError", response.body)
             ELSE RaiseContent("TwitterError", response.body)
        ELSE RaiseStatus(response.status)

\* untweet with a client-side memory of what was deleted: deleting again
\* succeeds whatever the server says
untweet_result_mut(response) ==
    LET parsed == parse(response)
    IN  IF call.input \in deleted THEN Return(<<"deleted">>)
        ELSE IF ~parsed.ok THEN parsed.outcome
        ELSE IF response.status = FORBIDDEN
        THEN RaiseContent("TwitterError", response.body)
        ELSE IF response.status = OK THEN GetData(response.body)
        ELSE RaiseStatus(response.status)

untweet_result(response) ==
    LET parsed == parse(response)
    IN  IF ~parsed.ok THEN parsed.outcome
        ELSE IF response.status = FORBIDDEN
        THEN RaiseContent("TwitterError", response.body)
        ELSE IF response.status = OK THEN GetData(response.body)
        ELSE RaiseStatus(response.status)

users_by_username_result(response) ==
    LET parsed == parse(response)
    IN  IF ~parsed.ok THEN parsed.outcome
        ELSE IF response.status = OK THEN GetData(response.body)
        ELSE RaiseStatus(response.status)

(***************************************************************************)
(* State. `client` is the LittleBird object (or the failed construction),  *)
(* `call` the one-request operation blocked in its HTTP request, `gen` the *)
(* generator of tweets_by_user_id, `last` the record of the operation that *)
(* finished last, `deleted` the ids the server has reported deleted.       *)
(***************************************************************************)
NoCall == [op |-> "none"]

NoLast == [op |-> "none"]

NoGen == [pc |-> "none"]

Init ==
    /\ client = NoClient
    /\ nsessions = 0
    /\ open = {}
    /\ call = NoCall
    /\ gen = NoGen
    /\ last = NoLast
    /\ deleted = {}

\* the client exists and the single thread is not inside an HTTP request
Idle ==
    /\ client.status = "ready"
    /\ call = NoCall
    /\ gen.pc # "wait"
    /\ nsessions < MaxSessions

Construct(auth_params) ==
    /\ client.status # "ready"
    /\ client' = LittleBird_init(auth_params)
    /\ last' = [op |-> "__init__", input |-> auth_params]
    /\ UNCHANGED <<nsessions, open, call, gen, deleted>>

\* an operation refuses its argument: nothing is opened, nothing is sent
Refuse(op, input, exc) ==
    /\ last' = [op |-> op, input |-> input, session |-> 0, nreq |-> 0,
                request |-> NoRequest, response |-> NoResponse,
                outcome |-> Raise(exc), repeat |-> FALSE]
    /\ UNCHANGED <<client, nsessions, open, call, gen, deleted>>

\* an operation enters `with self.oauth()` and blocks in its HTTP request
Send(op, input, request) ==
    /\ nsessions' = nsessions + 1
    /\ open' = oauth_enter
    /\ call' = [op |-> op, input |-> input, session |-> nsessions + 1,
                request |-> request]
    /\ last' = NoLast
    /\ UNCHANGED <<client, gen, deleted>>

\* the response arrives; the operation returns or raises, leaving the `with`
Finish(response, outcome) ==
    /\ open' = oauth_exit(call.session)
    /\ call' = NoCall
    /\ last' = [op |-> call.op, input |-> call.input, session |-> call.session,
                nreq |-> 1, request |-> call.request, response |-> response,
                outcome |-> outcome,
                repeat |-> (call.op = "untweet" /\ call.input \in deleted)]
    /\ UNCHANGED <<client, nsessions, gen>>

get_tweets_by_id(ids) ==
    /\ Idle
    /\ IF get_tweets_by_id_malformed(ids)
       THEN Refuse("get_tweets_by_id", ids, "ValueError")
       ELSE Send("get_tweets_by_id", ids, get_tweets_by_id_request(ids))

get_tweets_by_id_response(response) ==
    /\ call.op = "get_tweets_by_id"
    /\ Finish(response, get_tweets_by_id_result(response))
    /\ UNCHANGED deleted

tweet(text) ==
    /\ Idle
    /\ LET checked == tweet_validate(text)
       IN  IF checked.exc # ""
           THEN Refuse("tweet", text, checked.exc)
           ELSE Send("tweet", text, tweet_request(checked.text))

tweet_response(response) ==
    /\ call.op = "tweet"
    /\ Finish(response, tweet_result(response))
    /\ UNCHANGED deleted

untweet(id) ==
    /\ Idle
    /\ Send("untweet", id, untweet_request(id))

untweet_response(response) ==
    /\ call.op = "untweet"
    /\ Finish(response, untweet_result(response))
    /\ deleted' = IF untweet_result(response).kind = "return"
                  THEN deleted \cup {call.input} ELSE deleted

users_by_username(usernames) ==
    /\ Idle
    /\ Send("users_by_username", usernames, users_by_username_request(usernames))

users_by_username_response(response) ==
    /\ call.op = "users_by_username"
    /\ Finish(response, users_by_username_result(response))
    /\ UNCHANGED deleted

(***************************************************************************)
(* tweets_by_user_id: a generator. Its body runs only inside next(): it    *)
(* opens the session at the first next(), is suspended at every yield with *)
(* the session still open, and leaves the `with` when it ends.             *)
(***************************************************************************)
None == [none |-> TRUE, t |-> 0]

Timestamp(t) == [none |-> FALSE, t |-> t]

\* the truth value of an optional timestamp: None and 0 are false
Truthy(x) == ~x.none /\ x.t # 0

\* d.update({k: v})
Update(d, k, v) == [x \in DOMAIN d \cup {k} |-> IF x = k THEN v ELSE d[x]]

tweets_by_user_id_params(start_time, end_time) ==
    LET params == [x \in {"tweet.fields", "max_results"} |->
                     IF x = "max_results" THEN max_results_per_page
                     ELSE "created_at"]
        with_start == IF Truthy(start_time)
                      THEN Update(params, "start_time", strftime(start_time.t))
                      ELSE params
    IN  IF Truthy(end_time)
        THEN Update(with_start, "end_time", strftime(end_time.t))
        ELSE with_start

tweets_by_user_id_request(user_id, params) ==
    [method |-> "GET", url |-> <<"2", "users", user_id, "tweets">>,
     params |-> params]

\* the loop passing the token on under the name it arrived with
Resume_mut(g) ==
    IF g.pending # <<>>
    THEN [g EXCEPT !.pc = "suspended",
                   !.yielded = Append(@, Head(g.pending)),
                   !.pending = Tail(@)]
    ELSE LET content == g.responses[Len(g.responses)].body
         IN  IF "next_token" \in content.meta
             THEN LET params == Update(g.params, "next_token", content.next_token)
                  IN  [g EXCEPT !.pc = "wait", !.params = params,
                                !.requests = Append(@,
                                   tweets_by_user_id_request(g.user_id, params))]
             ELSE [g EXCEPT !.pc = "done", !.outcome = Return(<<>>)]

\* the generator runs on from where it stands, after a page was read or after
\* a yield, to its next yield, its next request or its end
Resume(g) ==
    IF g.pending # <<>>
    THEN [g EXCEPT !.pc = "suspended",
                   !.yielded = Append(@, Head(g.pending)),
                   !.pending = Tail(@)]
    ELSE LET content == g.responses[Len(g.responses)].body
         IN  IF "next_token" \in content.meta
             THEN LET params == Update(g.params, "pagination_token",
                                       content.next_token)
                  IN  [g EXCEPT !.pc = "wait", !.params = params,
                                !.requests = Append(@,
                                   tweets_by_user_id_request(g.user_id, params))]
             ELSE [g EXCEPT !.pc = "done", !.outcome = Return(<<>>)]

\* one turn of the pagination loop, from the response on
tweets_by_user_id_page(g, response) ==
    LET parsed == parse(response)
        got == [g EXCEPT !.responses = Append(@, response)]
    IN  IF ~parsed.ok
        THEN [got EXCEPT !.pc = "done", !.outcome = parsed.outcome]
        ELSE IF "meta" \notin response.body.keys \/ "data" \notin response.body.keys
        THEN [got EXCEPT !.pc = "done", !.outcome = Raise("KeyError")]
        ELSE Resume([got EXCEPT !.pending = response.body.data])

\* the call itself only creates the generator
tweets_by_user_id(user_id, start_time, end_time) ==
    /\ client.status = "ready"
    /\ call = NoCall
    /\ gen.pc \in {"none", "done"}
    /\ gen' = [pc |-> "created", user_id |-> user_id, start_time |-> start_time,
               end_time |-> end_time, session |-> 0, params |-> EmptyDict,
               requests |-> <<>>, responses |-> <<>>, pending |-> <<>>,
               yielded |-> <<>>, outcome |-> Return(<<>>)]
    /\ UNCHANGED <<client, nsessions, open, call, last, deleted>>

\* next() on the generator
tweets_by_user_id_next ==
    /\ call = NoCall
    /\ \/ /\ gen.pc = "created"
          /\ nsessions < MaxSessions
          /\ nsessions' = nsessions + 1
          /\ open' = oauth_enter
          /\ LET params == tweets_by_user_id_params(gen.start_time, gen.end_time)
             IN  gen' = [gen EXCEPT !.pc = "wait", !.session = nsessions + 1,
                                    !.params = params,
                                    !.requests = <<tweets_by_user_id_request(
                                                      gen.user_id, params)>>]
       \/ /\ gen.pc = "suspended"
          /\ gen' = Resume(gen)
          /\ open' = IF gen'.pc = "done" THEN oauth_exit(gen.session) ELSE open
          /\ UNCHANGED nsessions
    /\ UNCHANGED <<client, call, last, deleted>>

\* the server's chain of pages is finite: the last page request the bound
\* allows is not answered with another token
ChainEnds(response) ==
    Len(gen.requests) < MaxPages \/ response.body.meta = {}

\* the response to the page request the generator is blocked in
tweets_by_user_id_response(response) ==
    /\ gen.pc = "wait"
    /\ ChainEnds(response)
    /\ gen' = tweets_by_user_id_page(gen, response)
    /\ open' = IF gen'.pc = "done" THEN oauth_exit(gen.session) ELSE open
    /\ UNCHANGED <<client, nsessions, call, last, deleted>>

\* close() on the generator, or its collection: GeneratorExit at the yield
tweets_by_user_id_close ==
    /\ call = NoCall
    /\ gen.pc \in {"created", "suspended"}
    /\ gen' = [gen EXCEPT !.pc = "done", !.outcome = Raise("GeneratorExit")]
    /\ open' = IF gen.pc = "suspended" THEN oauth_exit(gen.session) ELSE open
    /\ UNCHANGED <<client, nsessions, call, last, deleted>>

(***************************************************************************)
(* Inputs: what callers pass and what the server may answer.               *)
(***************************************************************************)
SeqsUpTo(S, n) == UNION {[1..k -> S] : k \in 0..n}

Repeat(c, n) == [i \in 1..n |-> c]

credentials ==
    <<<<"consumer_key", "ck">>, <<"consumer_secret", "cs">>,
      <<"access_token", "at">>, <<"access_token_secret", "ats">>>>

Statuses == {200, 201, 400, 403, 500}

\* every body over the given `data` and `detail` values
Bodies(dataValues, details) ==
    { [NoBody EXCEPT !.kind = k] : k \in {"garbage", "array"} }
    \cup
    { [kind |-> "object", keys |-> ks,
       errors |-> IF "errors" \in ks THEN <<"e1">> ELSE <<>>,
       data |-> IF "data" \in ks THEN d ELSE <<>>,
       meta |-> {}, next_token |-> "",
       detail |-> IF "detail" \in ks THEN dt ELSE <<>>] :
         ks \in SUBSET {"errors", "data", "detail"},
         d \in dataValues, dt \in details }

Responses(dataValues, details) ==
    [status : Statuses, body : Bodies(dataValues, details)]

Details ==
    {duplicate_content, <<"A", " ">> \o duplicate_content,
     duplicate_content \o <<"!">>, <<"n", "o">>}

Texts ==
    {[type |-> "int", s |-> <<>>]}
    \cup {Str(s) : s \in SeqsUpTo({" ", "a"}, MaxTextLen)}
    \cup {Str(l \o Repeat("a", n) \o r) :
            n \in {TWEET_MAX_LEN, TWEET_MAX_LEN + 1},
            l \in {<<>>, <<"\n">>}, r \in {<<>>, <<" ", "\t">>}}

TweetIds == {<<>>, <<"2", "0">>, <<"2", "0", "0">>}

IdLists ==
    {[type |-> "NoneType", items |-> <<>>],
     [type |-> "tuple", items |-> <<<<"2", "0">>>>]}
    \cup {List(ids) : ids \in SeqsUpTo(TweetIds, MaxIds)}

Tokens == {"t1", "t2"}

\* the bodies a page request may be answered with
PageBodies ==
    { [NoBody EXCEPT !.kind = k] : k \in {"garbage", "array"} }
    \cup
    { [kind |-> "object", keys |-> ks,
       errors |-> IF "errors" \in ks THEN <<"e1">> ELSE <<>>,
       data |-> IF "data" \in ks THEN d ELSE <<>>,
       meta |-> IF "meta" \in ks THEN mk ELSE {},
       next_token |-> IF "meta" \in ks /\ mk # {} THEN tok ELSE "",
       detail |-> <<>>] :
         ks \in SUBSET {"errors", "meta", "data"},
         d \in {<<>>, <<"x", "y">>},
         mk \in SUBSET {"next_token"}, tok \in Tokens }

PageResponses == [status : {200, 500}, body : PageBodies]

Timestamps == {None, Timestamp(0), Timestamp(1609459200)}

NextPaging ==
    \/ Construct(credentials)
    \/ \E start_time, end_time \in Timestamps :
          tweets_by_user_id("15506669", start_time, end_time)
    \/ tweets_by_user_id_next
    \/ \E r \in PageResponses : tweets_by_user_id_response(r)
    \/ tweets_by_user_id_close

SpecPaging == Init /\ [][NextPaging]_vars

Next ==
    \/ \E auth_params \in {credentials, Tail(credentials)} : Construct(auth_params)
    \/ \E ids \in IdLists : get_tweets_by_id(ids)
    \/ \E r \in Responses({<<"t1">>, <<"t1", "t2">>}, {<<"n", "o">>}) :
          get_tweets_by_id_response(r)
    \/ \E text \in Texts : tweet(text)
    \/ \E r \in Responses({<<"t1">>}, Details) : tweet_response(r)
    \/ \E id \in {"3", "20"} : untweet(id)
    \/ \E r \in Responses({<<"deleted">>}, {<<"n", "o">>}) : untweet_response(r)
    \/ \E usernames \in {<<"jack">>, <<"jack", "JeffBezos">>} :
          users_by_username(usernames)
    \/ \E r \in Responses({<<"u1">>, <<"u1", "u2">>}, {<<"n", "o">>}) :
          users_by_username_response(r)

Spec == Init /\ [][Next]_vars

(***************************************************************************)
(* The constructor alone, over every shape of auth_params: each credential *)
(* missing, empty or set, and one further entry before or after them.      *)
(***************************************************************************)
Entry(shape, i) ==
    IF shape[i] = "missing" THEN <<>>
    ELSE <<<<rename_keys[i],
             IF shape[i] = "empty" THEN "" ELSE credentials[i][2]>>>>

Build(shape) ==
    Entry(shape, 1) \o Entry(shape, 2) \o Entry(shape, 3) \o Entry(shape, 4)

Extras ==
    {<<>>, <<<<"callback_uri", "cb">>>>, <<<<"bogus", "x">>>>,
     <<<<"client_key", "other">>>>}

AuthParams ==
    UNION { {e \o Build(shape), Build(shape) \o e} :
              shape \in [1..4 -> {"missing", "empty", "set"}], e \in Extras }

NextInit == \E auth_params \in AuthParams : Construct(auth_params)

SpecInit == Init /\ [][NextInit]_vars

(***************************************************************************)
(* The whole client: the one-request operations interleaved with a         *)
(* generator that is suspended between two next() calls.                   *)
(***************************************************************************)
SomeBodies ==
    { [NoBody EXCEPT !.kind = "garbage"] }
    \cup
    { [kind |-> "object", keys |-> ks,
       errors |-> IF "errors" \in ks THEN <<"e1">> ELSE <<>>,
       data |-> IF "data" \in ks THEN <<"d1">> ELSE <<>>,
       meta |-> {}, next_token |-> "",
       detail |-> IF "detail" \in ks THEN duplicate_content ELSE <<>>] :
         ks \in {{}, {"data"}, {"detail"}, {"errors"}, {"errors", "data"},
                 {"errors", "detail"}} }

SomeResponses == [status : Statuses, body : SomeBodies]

SomePageBodies ==
    { [NoBody EXCEPT !.kind = "garbage"] }
    \cup
    { [kind |-> "object", keys |-> ks,
       errors |-> IF "errors" \in ks THEN <<"e1">> ELSE <<>>,
       data |-> IF "data" \in ks THEN <<"x">> ELSE <<>>,
       meta |-> IF "meta" \in ks THEN mk ELSE {},
       next_token |-> IF "meta" \in ks /\ mk # {} THEN "t1" ELSE "",
       detail |-> <<>>] :
         ks \in {{"meta"}, {"meta", "data"}, {"errors", "meta", "data"}},
         mk \in SUBSET {"next_token"} }

SomePageResponses == [status : {200, 500}, body : SomePageBodies]

NextClient ==
    \/ Construct(credentials)
    \/ \E ids \in {List(<<>>), List(<<<<"2", "0">>>>)} : get_tweets_by_id(ids)
    \/ \E r \in SomeResponses : get_tweets_by_id_response(r)
    \/ \E text \in {Str(<<" ">>), Str(<<"a", " ">>)} : tweet(text)
    \/ \E r \in SomeResponses : tweet_response(r)
    \/ untweet("3")
    \/ \E r \in SomeResponses : untweet_response(r)
    \/ users_by_username(<<"jack">>)
    \/ \E r \in SomeResponses : users_by_username_response(r)
    \/ tweets_by_user_id("15506669", None, Timestamp(1609459200))
    \/ tweets_by_user_id_next
    \/ \E r \in SomePageResponses : tweets_by_user_id_response(r)
    \/ tweets_by_user_id_close

SpecClient == Init /\ [][NextClient]_vars

(***************************************************************************)
(* Properties.                                                             *)
(***************************************************************************)
OneRequestOps == {"get_tweets_by_id", "tweet", "untweet", "users_by_username"}

\* the last operation sent its request and got `last.response`
Answered == last.op \in OneRequestOps /\ last.nreq = 1

\* the last operation ended with exception `exc` before opening a session
Refused(exc) ==
    /\ last.outcome.kind = "raise" /\ last.outcome.exc = exc
    /\ last.nreq = 0 /\ last.session = 0 /\ last.request = NoRequest

ErrorPayload(r) == r.body.kind = "object" /\ "errors" \in r.body.keys

Clean(r) == r.body.kind = "object" /\ "errors" \notin r.body.keys

IsPage(r) == Clean(r) /\ {"meta", "data"} \subseteq r.body.keys

HasNext(r) == "next_token" \in r.body.meta

\* the items of the first n responses, in order
RECURSIVE Items(_, _)
Items(rs, n) == IF n = 0 THEN <<>> ELSE Items(rs, n - 1) \o rs[n].body.data

\* s without its leading and trailing whitespace
Core(s) ==
    LET nz == {k \in 1..Len(s) : s[k] \notin Whitespace}
    IN  IF nz = {} THEN <<>>
        ELSE SubSeq(s, CHOOSE k \in nz : \A m \in nz : k <= m,
                       CHOOSE k \in nz : \A m \in nz : k >= m)

\* C1: in every operation and on every status, a body that parses to a
\* mapping with an `errors` key raises TwitterError carrying that value,
\* before the status is looked at: nothing is returned or yielded from it,
\* and neither DuplicateTweetError nor a plain Exception is raised.
C1_ErrorsRaiseDomainError ==
    /\ (Answered /\ ErrorPayload(last.response)) =>
          /\ last.outcome.kind = "raise"
          /\ last.outcome.exc = "TwitterError"
          /\ last.outcome.value = last.response.body.errors
    /\ gen.pc # "none" =>
          \A k \in 1..Len(gen.responses) :
             ErrorPayload(gen.responses[k]) =>
                /\ k = Len(gen.responses)
                /\ gen.pc = "done"
                /\ gen.outcome.kind = "raise"
                /\ gen.outcome.exc = "TwitterError"
                /\ gen.outcome.value = gen.responses[k].body.errors
                /\ gen.yielded = Items(gen.responses, k - 1)

\* a 403 whose body has both `errors` and a duplicate-content detail ended
\* in the plain domain error
C1_Witness ==
    /\ Answered /\ last.op = "tweet"
    /\ last.response.status = 403
    /\ ErrorPayload(last.response)
    /\ last.response.body.detail = duplicate_content
    /\ last.outcome.exc = "TwitterError"

\* C2: tweet(text) checks its argument before opening a session: TypeError
\* for a non-string, ValueError for a string that is empty once trimmed,
\* OverflowError for one longer than 280 once trimmed, each with no session
\* and no request; otherwise the trimmed text is what is posted.
C2_TweetValidation ==
    /\ last.op = "tweet" =>
          IF last.input.type # "str" THEN Refused("TypeError")
          ELSE LET trimmed == Core(last.input.s)
               IN  IF trimmed = <<>> THEN Refused("ValueError")
                   ELSE IF Len(trimmed) > 280 THEN Refused("OverflowError")
                   ELSE /\ last.nreq = 1
                        /\ last.request.method = "POST"
                        /\ last.request.json.text = trimmed
    /\ call.op = "tweet" =>
          /\ call.input.type = "str"
          /\ call.request.method = "POST"
          /\ LET trimmed == Core(call.input.s)
             IN  Len(trimmed) \in 1..280 /\ call.request.json.text = trimmed

\* a padded text of more than 280 characters was posted as its 280-character
\* trimmed form
C2_Witness ==
    /\ last.op = "tweet" /\ last.nreq = 1
    /\ Len(last.input.s) > 280
    /\ Len(last.request.json.text) = 280

\* C3: for a valid text and a parsed response without `errors`, tweet
\* returns the response's data on 201, raises DuplicateTweetError on a 403
\* whose detail ends with "duplicate content.", TwitterError on any other
\* 403, and a plain Exception (no TwitterError) on any other status;
\* DuplicateTweetError is a TwitterError.
C3_TweetClassification ==
    (Answered /\ last.op = "tweet" /\ Clean(last.response)) =>
       LET r == last.response
           d == IF "detail" \in r.body.keys THEN r.body.detail ELSE <<>>
           dup == \E k \in 1..Len(d) : SubSeq(d, k, Len(d)) = duplicate_content
       IN  /\ (r.status = 201 /\ "data" \in r.body.keys) =>
                 /\ last.outcome.kind = "return"
                 /\ last.outcome.value = r.body.data
           /\ (r.status = 403 /\ dup) =>
                 /\ last.outcome.kind = "raise"
                 /\ last.outcome.exc = "DuplicateTweetError"
                 /\ issubclass(last.outcome.exc, "TwitterError")
                 /\ last.outcome.content = r.body
           /\ (r.status = 403 /\ ~dup) =>
                 /\ last.outcome.kind = "raise"
                 /\ last.outcome.exc = "TwitterError"
                 /\ last.outcome.content = r.body
           /\ r.status \notin {201, 403} =>
                 /\ last.outcome.kind = "raise"
                 /\ last.outcome.exc = "Exception"
                 /\ ~issubclass(last.outcome.exc, "TwitterError")
                 /\ last.outcome.status = r.status

\* a 403 with a duplicate-content detail ended in DuplicateTweetError
C3_Witness ==
    /\ Answered /\ last.op = "tweet" /\ Clean(last.response)
    /\ last.response.status = 403
    /\ Len(last.response.body.detail) > Len(duplicate_content)
    /\ last.outcome.exc = "DuplicateTweetError"

\* the offset of item i in the comma-joined string
RECURSIVE Offset(_, _)
Offset(items, i) ==
    IF i = 1 THEN 0 ELSE Offset(items, i - 1) + Len(items[i - 1]) + 1

\* `joined` is the items in order with one comma between neighbours
CommaJoined(joined, items) ==
    /\ Len(joined) = Offset(items, Len(items) + 1) - 1
    /\ \A i \in 1..Len(items) :
          /\ SubSeq(joined, Offset(items, i) + 1,
                    Offset(items, i) + Len(items[i])) = items[i]
          /\ i < Len(items) => joined[Offset(items, i + 1)] = ","

\* C7: get_tweets_by_id raises ValueError, with no session and no request,
\* when ids is empty, is not a list or holds an empty id; any other list of
\* ids goes out in exactly one GET carrying the ids joined by commas.
C7_IdsValidation ==
    /\ last.op = "get_tweets_by_id" =>
          IF \/ last.input.type # "list"
             \/ last.input.items = <<>>
             \/ \E i \in 1..Len(last.input.items) : last.input.items[i] = <<>>
          THEN Refused("ValueError")
          ELSE /\ last.nreq = 1
               /\ last.request.method = "GET"
               /\ last.request.url = <<"2", "tweets">>
               /\ CommaJoined(last.request.params.ids, last.input.items)
    /\ call.op = "get_tweets_by_id" =>
          /\ call.input.type = "list"
          /\ call.input.items # <<>>
          /\ call.request.method = "GET"
          /\ CommaJoined(call.request.params.ids, call.input.items)

\* two ids went out as one comma-joined parameter
C7_Witness ==
    /\ last.op = "get_tweets_by_id" /\ last.nreq = 1
    /\ Len(last.input.items) = 2
    /\ last.input.items[1] # last.input.items[2]

\* C8 as stated: every parsed response without `errors` and with status 200
\* or 400 makes get_tweets_by_id return a list of tweets, not raise.
C8_Original ==
    (Answered /\ last.op = "get_tweets_by_id" /\ Clean(last.response)
       /\ last.response.status \in {200, 400}) =>
          last.outcome.kind = "return"

\* C8: for valid ids and a parsed response without `errors`,
\* get_tweets_by_id returns the response's data on status 200 or 400 when
\* the body has a `data` key (and raises KeyError when it has not), and
\* raises a plain Exception on every other status.
C8_StatusClassification ==
    (Answered /\ last.op = "get_tweets_by_id" /\ Clean(last.response)) =>
       LET r == last.response
       IN  /\ (r.status \in {200, 400} /\ "data" \in r.body.keys) =>
                 /\ last.outcome.kind = "return"
                 /\ last.outcome.value = r.body.data
           /\ (r.status \in {200, 400} /\ "data" \notin r.body.keys) =>
                 /\ last.outcome.kind = "raise"
                 /\ last.outcome.exc = "KeyError"
           /\ r.status \notin {200, 400} =>
                 /\ last.outcome.kind = "raise"
                 /\ last.outcome.exc = "Exception"
                 /\ last.outcome.status = r.status

\* a 400 with data was returned as content
C8_Witness ==
    /\ Answered /\ last.op = "get_tweets_by_id" /\ Clean(last.response)
    /\ last.response.status = 400
    /\ last.outcome.kind = "return"
    /\ Len(last.outcome.value) = 2

\* C9: untweet sends exactly one DELETE for the id and its outcome is a
\* function of that response alone, whatever was deleted before: on a
\* parsed response without `errors`, 200 returns the data, 403 raises
\* TwitterError, any other status a plain Exception.
C9_UntweetMirrorsResponse ==
    /\ last.op = "untweet" =>
          /\ last.nreq = 1
          /\ last.request.method = "DELETE"
          /\ last.request.url = <<"2", "tweets", last.input>>
          /\ Clean(last.response) =>
                LET r == last.response
                IN  /\ (r.status = 200 /\ "data" \in r.body.keys) =>
                          /\ last.outcome.kind = "return"
                          /\ last.outcome.value = r.body.data
                    /\ r.status = 403 =>
                          /\ last.outcome.kind = "raise"
                          /\ last.outcome.exc = "TwitterError"
                          /\ last.outcome.content = r.body
                    /\ r.status \notin {200, 403} =>
                          /\ last.outcome.kind = "raise"
                          /\ last.outcome.exc = "Exception"
                          /\ last.outcome.status = r.status
    /\ call.op = "untweet" =>
          /\ call.request.method = "DELETE"
          /\ call.request.url = <<"2", "tweets", call.input>>

\* an id the server had already reported deleted was deleted again, the
\* server answered 200, and the call returned
C9_Witness ==
    /\ last.op = "untweet" /\ last.repeat
    /\ last.response.status = 200
    /\ last.outcome.kind = "return"
    /\ last.outcome.value = <<"deleted">>

\* the credential keys of auth_params that are absent, or present and empty
MissingKeys(auth_params) ==
    {k \in DOMAIN rename : \A i \in 1..Len(auth_params) : auth_params[i][1] # k}

EmptyKeys(auth_params) ==
    {k \in DOMAIN rename :
       \E i \in 1..Len(auth_params) :
          auth_params[i][1] = k /\ auth_params[i][2] = ""}

\* the first credential, in the order the constructor looks, that is absent
\* or empty
FirstBadKey(auth_params) ==
    LET bad == {i \in 1..4 : rename_keys[i] \in
                  MissingKeys(auth_params) \cup EmptyKeys(auth_params)}
    IN  rename_keys[CHOOSE i \in bad : \A j \in bad : i <= j]

\* construction fails exactly when a credential is absent or empty, with
\* KeyError for an absent one and ValueError for an empty one
ConstructionChecksCredentials ==
    LET auth_params == last.input
        bad == MissingKeys(auth_params) \cup EmptyKeys(auth_params)
    IN  /\ bad # {} =>
              /\ client.status = "failed"
              /\ client.exc = IF FirstBadKey(auth_params) \in MissingKeys(auth_params)
                              THEN "KeyError" ELSE "ValueError"
        /\ client.exc = "KeyError" => MissingKeys(auth_params) # {}
        /\ client.exc = "ValueError" => EmptyKeys(auth_params) # {}
        /\ client.status = "ready" => bad = {}

\* the stored session parameters hold the four credentials under their
\* OAuth names
CredentialsStored ==
    \A i \in 1..Len(last.input) :
       last.input[i][1] \in DOMAIN rename =>
          /\ rename[last.input[i][1]] \in DOMAIN client.oauth_params
          /\ client.oauth_params[rename[last.input[i][1]]] = last.input[i][2]

\* C10 as stated: construction fails when a credential is absent (KeyError)
\* or empty (ValueError), and whenever it succeeds the four credentials are
\* stored unchanged under their OAuth names.
C10_Original ==
    last.op = "__init__" =>
       /\ ConstructionChecksCredentials
       /\ client.status = "ready" => CredentialsStored

\* C10: construction fails when a credential is absent (KeyError) or empty
\* (ValueError); when it succeeds and auth_params has no entry of its own
\* under one of the four OAuth names, the four credentials are stored
\* unchanged under their OAuth names.
C10_Construction ==
    last.op = "__init__" =>
       /\ ConstructionChecksCredentials
       /\ (/\ client.status = "ready"
           /\ \A i \in 1..Len(last.input) :
                 \A k \in DOMAIN rename : last.input[i][1] # rename[k])
          => CredentialsStored

\* a client was built from the four credentials and one more session
\* argument
C10_Witness ==
    /\ last.op = "__init__"
    /\ client.status = "ready"
    /\ Len(last.input) = 5
    /\ client.oauth_params["client_key"] = "ck"
    /\ "callback_uri" \in DOMAIN client.oauth_params

\* the start and end filters of a request are those of the first request
SameFilters(params, first) ==
    \A f \in {"start_time", "end_time"} :
       /\ f \in DOMAIN params <=> f \in DOMAIN first
       /\ f \in DOMAIN params => params[f] = first[f]

\* C4: tweets_by_user_id asks for page k+1 with the next_token of page k,
\* with page size 50 and the same filters every time, asks for nothing after
\* a page without next_token, yields the pages' items in page order and in
\* within-page order, and is exhausted exactly after a page without
\* next_token: N pages, N requests, every item once.
C4_Pagination ==
    gen.pc # "none" =>
       LET R == gen.requests
           P == gen.responses
           n == Len(gen.responses)
       IN  /\ Len(R) = IF gen.pc = "wait" THEN n + 1 ELSE n
           /\ \A k \in 1..Len(R) :
                 /\ R[k].method = "GET"
                 /\ R[k].url = <<"2", "users", gen.user_id, "tweets">>
                 /\ R[k].params["max_results"] = 50
                 /\ SameFilters(R[k].params, R[1].params)
                 /\ IF k = 1 THEN "pagination_token" \notin DOMAIN R[k].params
                    ELSE /\ IsPage(P[k - 1]) /\ HasNext(P[k - 1])
                         /\ "pagination_token" \in DOMAIN R[k].params
                         /\ R[k].params["pagination_token"] = P[k - 1].body.next_token
           /\ (\A k \in 1..n : IsPage(P[k])) =>
                 gen.yielded \o gen.pending = Items(P, n)
           /\ (gen.pc = "done" /\ gen.outcome.kind = "return") =>
                 /\ n >= 1 /\ Len(R) = n
                 /\ \A k \in 1..n : IsPage(P[k]) /\ (HasNext(P[k]) <=> k < n)
                 /\ gen.yielded = Items(P, n)
           /\ (n >= 1 /\ IsPage(P[n]) /\ ~HasNext(P[n]) /\ gen.pending = <<>>
                 /\ P[n].body.data = <<>>) => gen.pc = "done"

\* a chain of three pages, the middle one empty, with two different tokens
\* and an end filter, was read to its end
C4_Witness ==
    /\ gen.pc = "done" /\ gen.outcome.kind = "return"
    /\ Len(gen.responses) = 3
    /\ gen.responses[1].body.next_token = "t2"
    /\ gen.responses[2].body.next_token = "t1"
    /\ gen.responses[2].body.data = <<>>
    /\ Len(gen.yielded) = 4
    /\ "end_time" \in DOMAIN gen.requests[3].params

\* a page request failed: a status other than 200, a body that is no JSON
\* object, or an error payload
Failure(r) == r.status # 200 \/ r.body.kind # "object" \/ "errors" \in r.body.keys

\* C5: when the request for page k fails, the sequence raises there, having
\* yielded exactly the items of pages 1..k-1 and nothing of the failed
\* response, and asks for no further page.
C5_FailurePropagates ==
    gen.pc # "none" =>
       \A k \in 1..Len(gen.responses) :
          Failure(gen.responses[k]) =>
             /\ k = Len(gen.responses)
             /\ Len(gen.requests) = k
             /\ gen.pc = "done"
             /\ gen.outcome.kind = "raise"
             /\ gen.outcome.exc # "GeneratorExit"
             /\ gen.yielded = Items(gen.responses, k - 1)

\* the sessions of the calls that are under way
Active ==
    (IF call.op # "none" THEN {call.session} ELSE {})
    \cup (IF gen.pc \in {"wait", "suspended"} THEN {gen.session} ELSE {})

SessionsScoped ==
    /\ open = Active
    /\ \A s \in open : s \in 1..nsessions
    /\ (call.op # "none" /\ gen.pc \in {"wait", "suspended"}) =>
          call.session # gen.session
    /\ (last.op \in OneRequestOps /\ last.nreq = 0) => last.session = 0
    /\ Answered => last.session \in (1..nsessions) \ open
    /\ gen.pc = "done" => gen.session \notin open
    /\ gen.pc = "created" => gen.session = 0

\* this step ends an operation that refused its argument
Refusing ==
    /\ last' # last
    /\ last'.op \in OneRequestOps
    /\ last'.nreq = 0

\* C6: every call opens a session of its own before its first request, has
\* it open while a request is under way, and has closed it however the call
\* ended; no session of a finished call stays open, and a call that refuses
\* its argument opens none.
C6_SessionScoping ==
    /\ []SessionsScoped
    /\ [][Refusing => (nsessions' = nsessions /\ open' = open)]_vars

\* a one-request call opened and closed its own session, in every way a
\* call can end, while a generator stayed suspended with its session open
C6_Witness ==
    /\ gen.pc = "suspended"
    /\ open = {gen.session}
    /\ Answered
    /\ last.session > gen.session
    /\ last.outcome.exc = "DuplicateTweetError"

====
